---------------------------- MODULE Spec2Model ----------------------------
(***************************************************************************)
(* A model of actions/actions.py: the custom actions of the healthcare     *)
(* facility assistant (facility search, identifier lookup, form slot       *)
(* validation).                                                            *)
(*                                                                         *)
(* A Python str is a sequence of one-character strings, so that upper(),   *)
(* title(), isdigit() and format() are computed character by character.    *)
(* Join turns such a sequence into a TLA+ string for readable comparisons. *)
(* Python's None is the one-element sequence None, whose element is not a  *)
(* character.  A dict is a function from TLA+ strings (its keys) to        *)
(* values; a Python exception is the name of its class in the field err.   *)
(***************************************************************************)
EXTENDS Integers, Sequences, FiniteSets, TLC

VARIABLES
    facility_type,      \* tracker slot 'facility_type'
    location,           \* tracker slot 'location'
    facility_id,        \* tracker slot 'facility_id'
    requested_slot,     \* tracker slot 'requested_slot'
    facility_address,   \* tracker slot 'facility_address'
    upstream,           \* what the data service answers to a GET
    op,                 \* the action that ran last ("none" before any)
    requests,           \* the paths the last run sent a GET to, in order
    err,                \* the exception the last run ended with, or "none"
    messages,           \* what the last run handed to dispatcher.utter_message
    events,             \* the events the last run returned
    fills               \* how many slots the user has filled on request

vars == <<facility_type, location, facility_id, requested_slot,
          facility_address, upstream, op, requests, err, messages, events,
          fills>>

---------------------------------------------------------------------------
(* Bounds of the model.                                                    *)

\* longest location string the user types
MaxLen == 2
\* longest result list the data service answers with
MaxResults == 4
\* most slots the user fills on request in one conversation
MaxFills == 4

---------------------------------------------------------------------------
(* Python values and str methods.                                          *)

None == <<"None">>

Digits == {"0", "1", "2", "3", "4", "5", "6", "7", "8", "9"}

LowerChars == <<"a","b","c","d","e","f","g","h","i","j","k","l","m",
                "n","o","p","q","r","s","t","u","v","w","x","y","z">>

UpperChars == <<"A","B","C","D","E","F","G","H","I","J","K","L","M",
                "N","O","P","Q","R","S","T","U","V","W","X","Y","Z">>

IsLower(c) == \E i \in 1..Len(LowerChars) : LowerChars[i] = c

IsUpper(c) == \E i \in 1..Len(UpperChars) : UpperChars[i] = c

IsCased(c) == IsLower(c) \/ IsUpper(c)

ToUpper(c) ==
    IF IsLower(c)
    THEN UpperChars[CHOOSE i \in 1..Len(LowerChars) : LowerChars[i] = c]
    ELSE c

ToLower(c) ==
    IF IsUpper(c)
    THEN LowerChars[CHOOSE i \in 1..Len(UpperChars) : UpperChars[i] = c]
    ELSE c

\* a plausible bug: the empty string counts as a string of digits
IsDigitOrEmpty(s) == \A i \in 1..Len(s) : s[i] \in Digits

\* str.isdigit: a non-empty string of digits
IsDigit(s) == Len(s) > 0 /\ \A i \in 1..Len(s) : s[i] \in Digits

\* str.upper
Upper(s) == [i \in 1..Len(s) |-> ToUpper(s[i])]

\* str.title: a cased character is upper-cased when the character before it
\* is not cased, and lower-cased when it is
Title(s) ==
    [i \in 1..Len(s) |->
        IF i > 1 /\ IsCased(s[i - 1]) THEN ToLower(s[i]) ELSE ToUpper(s[i])]

RECURSIVE IntText(_)
\* str(n) for a natural number n
IntText(n) ==
    LET d == <<"0", "1", "2", "3", "4", "5", "6", "7", "8", "9">>[(n % 10) + 1]
    IN  IF n < 10 THEN <<d>> ELSE IntText(n \div 10) \o <<d>>

\* str(v) as format() renders an argument
PyStr(v) == IF v = None THEN <<"N", "o", "n", "e">> ELSE v

RECURSIVE Format(_, _)
\* template.format(*args) for a template whose fields are all '{}'
Format(template, args) ==
    IF template = <<>> THEN <<>>
    ELSE IF Len(template) >= 2 /\ template[1] = "{" /\ template[2] = "}"
         THEN PyStr(Head(args))
                  \o Format(SubSeq(template, 3, Len(template)), Tail(args))
         ELSE <<Head(template)>> \o Format(Tail(template), args)

RECURSIVE Join(_)
\* the TLA+ string with the characters of s
Join(s) == IF s = <<>> THEN "" ELSE Head(s) \o Join(Tail(s))

---------------------------------------------------------------------------
(* The registries.                                                         *)

HospitalKey == <<"x","u","b","h","-","q","3","6","u">>

NursingHomeKey == <<"b","2","7","b","-","2","u","c","7">>

HomeHealthKey == <<"9","w","z","i","-","p","e","q","s">>

BaseKey == <<"b","a","s","e">>

\* 'https://data.medicare.gov/resource/{}.json'
BaseUrl ==
    <<"h","t","t","p","s",":","/","/","d","a","t","a",".","m","e","d","i",
      "c","a","r","e",".","g","o","v","/","r","e","s","o","u","r","c","e",
      "/","{","}",".","j","s","o","n">>

\* ENDPOINTS: a value is a str ([str |-> ...]) or a dict ([dict |-> ...])
ENDPOINTS ==
    [k \in {BaseKey, HospitalKey, NursingHomeKey, HomeHealthKey} |->
        IF k = BaseKey THEN [str |-> BaseUrl]
        ELSE IF k = HospitalKey THEN [dict |->
            [city_query     |-> <<"?","c","i","t","y","=","{","}">>,
             zip_code_query |-> <<"?","z","i","p","_","c","o","d","e","=","{","}">>,
             id_query       |-> <<"?","p","r","o","v","i","d","e","r","_","i","d","=","{","}">>]]
        ELSE IF k = NursingHomeKey THEN [dict |->
            [city_query     |-> <<"?","p","r","o","v","i","d","e","r","_","c","i","t","y","=","{","}">>,
             zip_code_query |-> <<"?","p","r","o","v","i","d","e","r","_","z","i","p","_","c","o","d","e","=","{","}">>,
             id_query       |-> <<"?","f","e","d","e","r","a","l","_","p","r","o","v","i","d","e","r","_","n","u","m","b","e","r","=","{","}">>]]
        ELSE [dict |->
            [city_query     |-> <<"?","c","i","t","y","=","{","}">>,
             zip_code_query |-> <<"?","z","i","p","=","{","}">>,
             id_query       |-> <<"?","p","r","o","v","i","d","e","r","_","n","u","m","b","e","r","=","{","}">>]]]

\* FACILITY_TYPES, in the order the dict is written
FACILITY_TYPES ==
    << [key |-> "hospital",
        value |-> [name     |-> <<"h","o","s","p","i","t","a","l">>,
                   resource |-> HospitalKey]],
       [key |-> "nursing_home",
        value |-> [name     |-> <<"n","u","r","s","i","n","g"," ","h","o","m","e">>,
                   resource |-> NursingHomeKey]],
       [key |-> "home_health",
        value |-> [name     |-> <<"h","o","m","e"," ","h","e","a","l","t","h"," ","a","g","e","n","c","y">>,
                   resource |-> HomeHealthKey]] >>

\* FACILITY_TYPES[key]
FacilityType(key) ==
    FACILITY_TYPES[CHOOSE i \in 1..Len(FACILITY_TYPES) :
                       FACILITY_TYPES[i].key = key].value

---------------------------------------------------------------------------
(* The helpers.                                                            *)

\* _create_path, for a str `values` (no caller passes a list)
_create_path(base, resource, query, values) ==
    Format(base \o query, <<resource, values>>)

\* the exception ENDPOINTS[resource][...] raises, or "none": a missing key
\* is a KeyError, and indexing the str ENDPOINTS['base'] by a str is a
\* TypeError
EndpointsError(resource) ==
    IF resource \notin DOMAIN ENDPOINTS THEN "KeyError"
    ELSE IF "dict" \notin DOMAIN ENDPOINTS[resource] THEN "TypeError"
    ELSE "none"

\* a plausible bug: a failed GET is taken for an empty result list
GetSuppressingFailure(full_path, up) ==
    [requests |-> <<full_path>>,
     err      |-> "none",
     results  |-> IF up.status = "ok" THEN up.results ELSE <<>>]

\* requests.get(full_path).json(): the request is sent; a transport failure
\* or an undecodable body raises, else the decoded list is the result
Get(full_path, up) ==
    [requests |-> <<full_path>>,
     err      |-> IF up.status = "ok" THEN "none" ELSE up.status,
     results  |-> IF up.status = "ok" THEN up.results ELSE <<>>]

\* the query template _find_facilities picks for a location
LocationQuery(loc, resource) ==
    IF IsDigit(loc)
    THEN ENDPOINTS[resource].dict.zip_code_query
    ELSE ENDPOINTS[resource].dict.city_query

\* the search term _find_facilities puts in the path
LocationTerm(loc) == IF IsDigit(loc) THEN loc ELSE Upper(loc)

\* a plausible bug: a key that is no data source falls through to the
\* home-health templates
_find_facilities_defaulting(loc, resource, up) ==
    IF loc = None
    THEN [requests |-> <<>>, err |-> "TypeError", results |-> <<>>]
    ELSE LET known == IF EndpointsError(resource) = "none" THEN resource
                      ELSE HomeHealthKey
         IN  Get(_create_path(ENDPOINTS[BaseKey].str, resource,
                              LocationQuery(loc, known), LocationTerm(loc)),
                 up)

\* _find_facilities: str.isdigit(None) raises TypeError before anything else
_find_facilities(loc, resource, up) ==
    IF loc = None
    THEN [requests |-> <<>>, err |-> "TypeError", results |-> <<>>]
    ELSE IF EndpointsError(resource) # "none"
    THEN [requests |-> <<>>, err |-> EndpointsError(resource), results |-> <<>>]
    ELSE Get(_create_path(ENDPOINTS[BaseKey].str, resource,
                          LocationQuery(loc, resource), LocationTerm(loc)),
             up)

RECURSIVE ResolveFrom(_, _, _)
\* the loop of _resolve_name, from the i-th item on
ResolveFrom(facility_types, resource, i) ==
    IF i > Len(facility_types) THEN <<>>
    ELSE IF facility_types[i].value.resource = resource
         THEN facility_types[i].value.name
         ELSE ResolveFrom(facility_types, resource, i + 1)

\* a plausible bug: the key is compared with the name of each category
ResolveByName(facility_types, resource) ==
    IF \E i \in 1..Len(facility_types) :
           facility_types[i].value.name = resource
    THEN resource
    ELSE <<>>

_resolve_name(facility_types, resource) ==
    ResolveFrom(facility_types, resource, 1)

---------------------------------------------------------------------------
(* SubmitFacilityForm.run                                                  *)

\* results[:3]
ResultLimit == 3

\* a plausible bug: the cut is one too long
PrefixOneMore(results) ==
    SubSeq(results, 1, IF Len(results) < ResultLimit + 1 THEN Len(results)
                                                         ELSE ResultLimit + 1)

Prefix(results) ==
    SubSeq(results, 1, IF Len(results) < ResultLimit THEN Len(results)
                                                     ELSE ResultLimit)

\* r.get(field)
DictGet(r, field) == IF field \in DOMAIN r THEN r[field] ELSE None

\* "/inform{\"facility_id\":\"" + facility_id + "\"}"
Payload(id) ==
    <<"/","i","n","f","o","r","m","{","\"","f","a","c","i","l","i","t","y",
      "_","i","d","\"",":","\"">> \o id \o <<"\"","}">>

\* the field the search reads the identifier from, per branch
SearchIdField(ftype) ==
    IF ftype = FacilityType("hospital").resource THEN "provider_id"
    ELSE IF ftype = FacilityType("nursing_home").resource
         THEN "federal_provider_number"
         ELSE "provider_number"

\* the field the search reads the name from, per branch
SearchNameField(ftype) ==
    IF ftype = FacilityType("hospital").resource THEN "hospital_name"
    ELSE "provider_name"

\* one pass of the loop body: the hospital branch reads the identifier with
\* r.get, the other two with r[...]; a None identifier fails the
\* concatenation of the payload with a TypeError
ButtonOf(r, ftype) ==
    LET idf == SearchIdField(ftype)
        nmf == SearchNameField(ftype)
        lenient == (ftype = FacilityType("hospital").resource)
    IN  IF ~lenient /\ idf \notin DOMAIN r
        THEN [err |-> "KeyError", button |-> <<>>]
        ELSE IF nmf \notin DOMAIN r
        THEN [err |-> "KeyError", button |-> <<>>]
        ELSE IF DictGet(r, idf) = None
        THEN [err |-> "TypeError", button |-> <<>>]
        ELSE [err |-> "none",
              button |-> [title |-> Title(r[nmf]), payload |-> Payload(r[idf])]]

RECURSIVE ButtonsOf(_, _)
\* the loop over results[:3]: the first failing record ends it
ButtonsOf(rs, ftype) ==
    IF rs = <<>> THEN [err |-> "none", buttons |-> <<>>]
    ELSE LET b == ButtonOf(Head(rs), ftype)
         IN  IF b.err # "none" THEN [err |-> b.err, buttons |-> <<>>]
             ELSE LET rest == ButtonsOf(Tail(rs), ftype)
                  IN  IF rest.err # "none" THEN rest
                      ELSE [err |-> "none",
                            buttons |-> <<b.button>> \o rest.buttons]

\* a plausible bug: every label is pluralized by appending "s"
SummaryRegularPlural(buttons, button_name) ==
    IF Len(buttons) = 1
    THEN Format(<<"H","e","r","e"," ","i","s"," ","a"," ","{","}"," ","n",
                  "e","a","r"," ","y","o","u",":">>, <<button_name>>)
    ELSE Format(<<"H","e","r","e"," ","a","r","e"," ","{","}"," ","{","}",
                  "s"," ","n","e","a","r"," ","y","o","u",":">>,
                <<IntText(Len(buttons)), button_name>>)

\* 'Here is a {} near you:' / 'Here are {} {}s near you:'
Summary(buttons, button_name) ==
    IF Len(buttons) = 1
    THEN Format(<<"H","e","r","e"," ","i","s"," ","a"," ","{","}"," ","n",
                  "e","a","r"," ","y","o","u",":">>, <<button_name>>)
    ELSE Format(<<"H","e","r","e"," ","a","r","e"," ","{","}"," ","{","}",
                  "s"," ","n","e","a","r"," ","y","o","u",":">>,
                <<IntText(Len(buttons)),
                  IF button_name = <<"h","o","m","e"," ","h","e","a","l","t",
                                     "h"," ","a","g","e","n","c","y">>
                  THEN <<"h","o","m","e"," ","h","e","a","l","t","h"," ",
                         "a","g","e","n","c","i","e">>
                  ELSE button_name>>)

\* 'Sorry, we could not find a {} in {}.'
NotFoundMessage(button_name, loc) ==
    Format(<<"S","o","r","r","y",","," ","w","e"," ","c","o","u","l","d"," ",
             "n","o","t"," ","f","i","n","d"," ","a"," ","{","}"," ","i","n",
             " ","{","}",".">>, <<button_name, Title(loc)>>)

\* the whole of SubmitFacilityForm.run: what it requested, how it ended,
\* what it dispatched and what it returned
SubmitFacilityForm_run(loc, ftype, up) ==
    LET found == _find_facilities(loc, ftype, up)
        button_name == _resolve_name(FACILITY_TYPES, ftype)
        made == ButtonsOf(Prefix(found.results), ftype)
        failed(e) == [requests |-> found.requests, err |-> e,
                      messages |-> <<>>, events |-> <<>>]
    IN  IF found.err # "none" THEN failed(found.err)
        ELSE IF Len(found.results) = 0
        THEN [requests |-> found.requests, err |-> "none",
              messages |-> <<[text |-> NotFoundMessage(button_name, loc),
                              buttons |-> <<>>]>>,
              events |-> <<>>]
        ELSE IF made.err # "none" THEN failed(made.err)
        ELSE [requests |-> found.requests, err |-> "none",
              messages |-> <<[text |-> Summary(made.buttons, button_name),
                              buttons |-> made.buttons]>>,
              events |-> <<>>]

---------------------------------------------------------------------------
(* FindHealthCareAddress.run                                               *)

\* the four fields the address is read from, per branch, in reading order
AddressFields(ftype) ==
    IF ftype = FacilityType("hospital").resource
    THEN <<"address", "city", "state", "zip_code">>
    ELSE IF ftype = FacilityType("nursing_home").resource
    THEN <<"provider_address", "provider_city", "provider_state",
           "provider_zip_code">>
    ELSE <<"address", "city", "state", "zip">>

\* a plausible bug: the state is title-cased like the other three fields
AddressOfTitledState(selected, ftype) ==
    LET f == AddressFields(ftype)
    IN  Format(<<"{","}",","," ","{","}",","," ","{","}"," ","{","}">>,
               <<Title(selected[f[1]]), Title(selected[f[2]]),
                 Title(selected[f[3]]), Title(selected[f[4]])>>)

\* '{}, {}, {} {}'.format(street.title(), city.title(), state.upper(),
\*                        zip.title())
AddressOf(selected, ftype) ==
    LET f == AddressFields(ftype)
    IN  Format(<<"{","}",","," ","{","}",","," ","{","}"," ","{","}">>,
               <<Title(selected[f[1]]), Title(selected[f[2]]),
                 Upper(selected[f[3]]), Title(selected[f[4]])>>)

\* a plausible bug: the last record is selected
SelectedLast(results) == results[Len(results)]

\* selected = results[0]
Selected(results) == results[1]

\* SlotSet(key, value)
SlotSet(key, value) == [event |-> "slot", name |-> key, value |-> value]

\* the whole of FindHealthCareAddress.run
FindHealthCareAddress_run(ftype, healthcare_id, up) ==
    IF EndpointsError(ftype) # "none"
    THEN [requests |-> <<>>, err |-> EndpointsError(ftype),
          messages |-> <<>>, events |-> <<>>]
    ELSE
    LET got == Get(_create_path(ENDPOINTS[BaseKey].str, ftype,
                                ENDPOINTS[ftype].dict.id_query,
                                healthcare_id), up)
        failed(e) == [requests |-> got.requests, err |-> e,
                      messages |-> <<>>, events |-> <<>>]
    IN  IF got.err # "none" THEN failed(got.err)
        ELSE IF got.results # <<>>
        THEN LET selected == Selected(got.results)
             IN  IF \E i \in 1..4 : AddressFields(ftype)[i] \notin DOMAIN selected
                 THEN failed("KeyError")
                 ELSE [requests |-> got.requests, err |-> "none",
                       messages |-> <<>>,
                       events |-> <<SlotSet("facility_address",
                                            AddressOf(selected, ftype))>>]
        ELSE [requests |-> got.requests, err |-> "none", messages |-> <<>>,
              events |-> <<SlotSet("facility_address",
                                   <<"n","o","t"," ","f","o","u","n","d">>)>>]

---------------------------------------------------------------------------
(* ValidateFacilityForm.run                                                *)

required_slots == <<"facility_type", "location">>

\* a plausible bug: the required slots are examined in the reverse order
LastUnfilled(slots, i) ==
    IF slots["location"] = None THEN <<"location">>
    ELSE IF slots["facility_type"] = None THEN <<"facility_type">>
    ELSE None

RECURSIVE FirstUnfilled(_, _)
\* the loop over required_slots, from the i-th on: the first slot that is
\* None, or None when every one is filled
FirstUnfilled(slots, i) ==
    IF i > Len(required_slots) THEN None
    ELSE IF slots[required_slots[i]] = None THEN <<required_slots[i]>>
         ELSE FirstUnfilled(slots, i + 1)

\* the whole of ValidateFacilityForm.run; requested_slot holds <<name>> for
\* the slot name `name`, or None
ValidateFacilityForm_run(slots) ==
    [requests |-> <<>>, err |-> "none", messages |-> <<>>,
     events |-> <<SlotSet("requested_slot", FirstUnfilled(slots, 1))>>]

---------------------------------------------------------------------------
(* The inputs: what the user and the data service can supply.              *)

\* the characters of the location strings that are enumerated in full
LocationChars == {"0", "7", "a", "Z", " "}

RECURSIVE TextsUpTo(_)
\* the strings over LocationChars of length at most n
TextsUpTo(n) ==
    IF n = 0 THEN {<<>>}
    ELSE LET shorter == TextsUpTo(n - 1)
         IN  shorter \cup {Append(t, c) : t \in shorter, c \in LocationChars}

Boston == <<"b","o","s","t","o","n">>

Zip12345 == <<"1","2","3","4","5">>

\* values of the slot 'location'
Locations == TextsUpTo(MaxLen) \cup {Boston, Zip12345, None}

FewLocations == {Boston, Zip12345, None}

\* values of the slot 'facility_type': the three data-source keys, the
\* registry's own 'base' key, a category key, and the unset slot
FacilityTypeValues ==
    {HospitalKey, NursingHomeKey, HomeHealthKey, BaseKey,
     <<"h","o","s","p","i","t","a","l">>, None}

\* values of the slot 'facility_id'
FacilityIds == {<<"1","2","3">>, None}

\* the field names of the three data sources: name, identifier, street,
\* city, state, postal code
Schema(source) ==
    IF source = HospitalKey
    THEN <<"hospital_name", "provider_id", "address", "city", "state",
           "zip_code">>
    ELSE IF source = NursingHomeKey
    THEN <<"provider_name", "federal_provider_number", "provider_address",
           "provider_city", "provider_state", "provider_zip_code">>
    ELSE <<"provider_name", "provider_number", "address", "city", "state",
           "zip">>

\* two facilities, each as name, identifier, street, city, state, postal code
FacilityData ==
    << << <<"a","c","m","e"," ","h","o","m","e">>, <<"1","2","3">>,
          <<"1"," ","m","a","i","n"," ","s","t">>, <<"b","o","s","t","o","n">>,
          <<"m","a">>, <<"0","2","1","0","8">> >>,
       << <<"S","T"," ","M","A","R","Y">>, <<"4","5","6">>,
          <<"9"," ","o","'","n","e","i","l"," ","r","d">>,
          <<"n","e","w"," ","y","o","r","k">>, <<"N","y">>,
          <<"1","0","0","0","1">> >> >>

\* the record of facility f in the schema of a data source
Record(source, f) ==
    [field \in {Schema(source)[i] : i \in 1..6} |->
        FacilityData[f][CHOOSE i \in 1..6 : Schema(source)[i] = field]]

\* record r without one field
Without(r, field) == [g \in DOMAIN r \ {field} |-> r[g]]

\* result lists of well-formed records of one data source
WellFormedLists(source) ==
    UNION {[1..n -> {Record(source, f) : f \in 1..Len(FacilityData)}] :
           n \in 0..MaxResults}

\* result lists in which one record lacks one field (for p > n no record
\* does, and the list is a well-formed one)
BrokenLists(source) ==
    {[i \in 1..n |-> IF i = p THEN Without(Record(source, 1), field)
                              ELSE Record(source, 1)] :
        n \in 1..MaxResults, p \in 1..MaxResults,
        field \in {Schema(source)[i] : i \in 1..6}}

Sources == {HospitalKey, NursingHomeKey, HomeHealthKey}

Failures ==
    {[status |-> "ConnectionError", results |-> <<>>],
     [status |-> "JSONDecodeError", results |-> <<>>]}

\* answers of the data service to one GET
Upstreams ==
    {[status |-> "ok", results |-> rs] :
        rs \in UNION {WellFormedLists(s) \cup BrokenLists(s) : s \in Sources}}
    \cup Failures

FewUpstreams ==
    {[status |-> "ok", results |-> <<>>],
     [status |-> "ok", results |-> <<Record(HospitalKey, 1)>>]} \cup Failures

---------------------------------------------------------------------------
(* The conversation.                                                       *)

\* the tracker's slots, as tracker.slots
Slots ==
    [facility_type |-> facility_type, location |-> location,
     facility_id |-> facility_id, requested_slot |-> requested_slot,
     facility_address |-> facility_address]

\* the value of slot `name` after the returned events are applied to it
Applied(name, old, evs) ==
    IF \E i \in 1..Len(evs) : evs[i].name = name
    THEN evs[CHOOSE i \in 1..Len(evs) :
                 evs[i].name = name
                 /\ \A j \in (i + 1)..Len(evs) : evs[j].name # name].value
    ELSE old

\* what a run leaves behind
Ran(name, out) ==
    /\ op' = name
    /\ requests' = out.requests
    /\ err' = out.err
    /\ messages' = out.messages
    /\ events' = out.events
    /\ requested_slot' = Applied("requested_slot", requested_slot, out.events)
    /\ facility_address' =
           Applied("facility_address", facility_address, out.events)

NoRun ==
    /\ op = "none" /\ requests = <<>> /\ err = "none"
    /\ messages = <<>> /\ events = <<>>
    /\ requested_slot = None /\ facility_address = None /\ fills = 0

\* a search or a lookup is about to run: the location strings are
\* enumerated against a few answers, the answers against a few locations
Init ==
    /\ facility_type \in FacilityTypeValues
    /\ \/ /\ location \in Locations
          /\ facility_id = None
          /\ upstream \in FewUpstreams
       \/ /\ location \in FewLocations
          /\ facility_id \in FacilityIds
          /\ upstream \in Upstreams
    /\ NoRun

SubmitRun ==
    /\ Ran("submit", SubmitFacilityForm_run(location, facility_type, upstream))
    /\ UNCHANGED <<facility_type, location, facility_id, upstream, fills>>

LookupRun ==
    /\ Ran("lookup",
           FindHealthCareAddress_run(facility_type, facility_id, upstream))
    /\ UNCHANGED <<facility_type, location, facility_id, upstream, fills>>

Next == SubmitRun \/ LookupRun

Spec == Init /\ [][Next]_vars

\* the form is about to be filled: any of the two required slots may be set
InitForm ==
    /\ facility_type \in FacilityTypeValues
    /\ location \in Locations
    /\ facility_id = None
    /\ upstream \in FewUpstreams
    /\ NoRun

\* the form runs: at first, after the user filled the slot it asked for,
\* and again whenever it asked for nothing
ValidateRun ==
    /\ op # "validate" \/ requested_slot = None
    /\ Ran("validate", ValidateFacilityForm_run(Slots))
    /\ UNCHANGED <<facility_type, location, facility_id, upstream, fills>>

\* the user fills the slot the form asked for
FillRequested ==
    /\ op = "validate"
    /\ requested_slot # None
    /\ fills < MaxFills
    /\ \/ /\ requested_slot = <<"facility_type">>
          /\ facility_type' \in FacilityTypeValues \ {None}
          /\ UNCHANGED location
       \/ /\ requested_slot = <<"location">>
          /\ location' \in FewLocations \ {None}
          /\ UNCHANGED facility_type
    /\ fills' = fills + 1
    /\ op' = "inform"
    /\ UNCHANGED <<facility_id, requested_slot, facility_address, upstream,
                   requests, err, messages, events>>

NextForm == ValidateRun \/ FillRequested

SpecForm == InitForm /\ [][NextForm]_vars

---------------------------------------------------------------------------
(* The properties.                                                         *)

\* a search ran for one of the three data sources with a location string
Searched ==
    op = "submit" /\ facility_type \in Sources /\ location # None

\* a lookup ran for one of the three data sources
LookedUp == op = "lookup" /\ facility_type \in Sources

Min(a, b) == IF a < b THEN a ELSE b

\* the path up to the postal code, per data source
ZipPath(key) ==
    IF key = HospitalKey
    THEN "https://data.medicare.gov/resource/xubh-q36u.json?zip_code="
    ELSE IF key = NursingHomeKey
    THEN "https://data.medicare.gov/resource/b27b-2uc7.json?provider_zip_code="
    ELSE "https://data.medicare.gov/resource/9wzi-peqs.json?zip="

\* the path up to the city, per data source
CityPath(key) ==
    IF key = HospitalKey
    THEN "https://data.medicare.gov/resource/xubh-q36u.json?city="
    ELSE IF key = NursingHomeKey
    THEN "https://data.medicare.gov/resource/b27b-2uc7.json?provider_city="
    ELSE "https://data.medicare.gov/resource/9wzi-peqs.json?city="

\* every character of s is a decimal digit (true of the empty string)
AllDigits(s) == \A i \in 1..Len(s) : s[i] \in Digits

\* the path of the one request of a search whose location counts as a
\* postal code exactly when `numeric` holds
PathIs(numeric) ==
    /\ Len(requests) = 1
    /\ Join(requests[1]) =
           IF numeric THEN ZipPath(facility_type) \o Join(location)
           ELSE CityPath(facility_type) \o Join(Upper(location))

\* C1, as claimed: a search requests the by-postal-code path with the term
\* unmodified when every character of the term is a decimal digit, and the
\* by-city path with the term upper-cased otherwise.
C1_PathByAllDigits == Searched => PathIs(AllDigits(location))

\* C1, amended: a search requests the by-postal-code path with the term
\* unmodified when the term is non-empty and every character of it is a
\* decimal digit, and the by-city path with the term upper-cased otherwise
\* (so also for the empty string); "12345" and "boston" give the paths of
\* the two scenarios.
C1_PathByNonEmptyDigits ==
    /\ Searched => PathIs(location # <<>> /\ AllDigits(location))
    /\ Searched /\ facility_type = HospitalKey /\ location = Zip12345
           => Join(requests[1]) =
                  "https://data.medicare.gov/resource/xubh-q36u.json?zip_code=12345"
    /\ Searched /\ facility_type = HospitalKey /\ location = Boston
           => Join(requests[1]) =
                  "https://data.medicare.gov/resource/xubh-q36u.json?city=BOSTON"

\* a search for the empty location requested the by-city path with an empty
\* term
C1_Witness ==
    /\ Searched /\ facility_type = NursingHomeKey /\ location = <<>>
    /\ Len(requests) = 1
    /\ Join(requests[1]) =
           "https://data.medicare.gov/resource/b27b-2uc7.json?provider_city="

\* the option that presents record r of data source `key`
OptionOf(r, key) ==
    [title |-> Title(r[Schema(key)[1]]),
     payload |-> <<"/","i","n","f","o","r","m","{","\"","f","a","c","i","l",
                   "i","t","y","_","i","d","\"",":","\"">>
                     \o r[Schema(key)[2]] \o <<"\"","}">>]

\* the label of a data source in messages
Label(key) ==
    IF key = HospitalKey THEN "hospital"
    ELSE IF key = NursingHomeKey THEN "nursing home"
    ELSE "home health agency"

\* C2: for a result list of n well-formed records of the category searched,
\* the search presents exactly min(n, 3) options, option i built from the
\* i-th record; for n = 0 it presents no option and only the 'could not
\* find' message.
C2_ThreeOptions ==
    Searched /\ upstream.status = "ok"
             /\ upstream.results \in WellFormedLists(facility_type)
    => LET rs == upstream.results
           k == Min(Len(rs), 3)
       IN  /\ err = "none"
           /\ Len(messages) = 1
           /\ events = <<>>
           /\ Len(messages[1].buttons) = k
           /\ \A i \in 1..k :
                  messages[1].buttons[i] = OptionOf(rs[i], facility_type)
           /\ Len(rs) = 0 =>
                  Join(messages[1].text) =
                      "Sorry, we could not find a " \o Label(facility_type)
                          \o " in " \o Join(Title(location)) \o "."

\* four records came back, the first two of different facilities, and three
\* options were presented
C2_Witness ==
    /\ Searched /\ upstream.status = "ok"
    /\ upstream.results \in WellFormedLists(facility_type)
    /\ Len(upstream.results) = 4
    /\ upstream.results[1] # upstream.results[2]
    /\ Len(messages) = 1
    /\ Len(messages[1].buttons) = 3

\* the four address fields of a data source, as the claims list them
ClaimedAddressFields(key) ==
    IF key = HospitalKey THEN <<"address", "city", "state", "zip_code">>
    ELSE IF key = NursingHomeKey
    THEN <<"provider_address", "provider_city", "provider_state",
           "provider_zip_code">>
    ELSE <<"address", "city", "state", "zip">>

\* record r carries the four address fields of data source `key`
HasAddress(r, key) ==
    \A i \in 1..4 : ClaimedAddressFields(key)[i] \in DOMAIN r

\* the events of a lookup to which the data service answers with `rs`
LookupEvents(rs) ==
    FindHealthCareAddress_run(facility_type, facility_id,
                              [status |-> "ok", results |-> rs]).events

\* exactly one facility_address event, "not found" exactly for an empty
\* list, and else the one the first record alone would give
OneAddressEvent ==
    /\ err = "none"
    /\ Len(events) = 1
    /\ events[1].event = "slot"
    /\ events[1].name = "facility_address"
    /\ facility_address = events[1].value
    /\ (Join(events[1].value) = "not found") <=> (upstream.results = <<>>)
    /\ upstream.results # <<>> =>
           events = LookupEvents(<<upstream.results[1]>>)

\* C3, as claimed: whenever the GET of a lookup succeeds, the lookup emits
\* exactly one facility_address event, whose value is "not found" exactly
\* when the result list is empty and is computed from the first element
\* only when it is not.
C3_AlwaysOneEvent == LookedUp /\ upstream.status = "ok" => OneAddressEvent

\* C3, amended: whenever the GET of a lookup succeeds and the result list
\* is empty or its first record carries the category's four address fields,
\* the lookup emits exactly one facility_address event, whose value is
\* "not found" exactly when the list is empty and is computed from the
\* first element only when it is not; when the first record lacks one of
\* the four fields the lookup ends with a KeyError and emits no event.
C3_OneEventIfFirstHasAddress ==
    LookedUp /\ upstream.status = "ok"
    => IF upstream.results = <<>>
          \/ HasAddress(upstream.results[1], facility_type)
       THEN OneAddressEvent
       ELSE err = "KeyError" /\ events = <<>>

\* a lookup got a list whose first record is well-formed and whose second
\* lacks a field, and emitted the address of the first
C3_Witness ==
    /\ LookedUp /\ upstream.status = "ok"
    /\ Len(upstream.results) >= 2
    /\ HasAddress(upstream.results[1], facility_type)
    /\ ~HasAddress(upstream.results[2], facility_type)
    /\ Len(events) = 1
    /\ Join(events[1].value) = "1 Main St, Boston, MA 02108"

\* C4: when the first record carries the category's four address fields,
\* the address is title(street) + ", " + title(city) + ", " + upper(state)
\* + " " + title(postal); the nursing-home record of 1 main st, boston, ma,
\* 02108 gives "1 Main St, Boston, MA 02108".
C4_Address ==
    LookedUp /\ upstream.status = "ok" /\ upstream.results # <<>>
             /\ HasAddress(upstream.results[1], facility_type)
    => LET r == upstream.results[1]
           f == ClaimedAddressFields(facility_type)
       IN  /\ Len(events) = 1
           /\ events[1].name = "facility_address"
           /\ Join(events[1].value) =
                  Join(Title(r[f[1]])) \o ", " \o Join(Title(r[f[2]])) \o ", "
                      \o Join(Upper(r[f[3]])) \o " " \o Join(Title(r[f[4]]))
           /\ r = Record(facility_type, 1) =>
                  Join(events[1].value) = "1 Main St, Boston, MA 02108"
           /\ r = Record(facility_type, 2) =>
                  Join(events[1].value) = "9 O'Neil Rd, New York, NY 10001"

\* the nursing-home record of the scenario was resolved
C4_Witness ==
    /\ LookedUp /\ facility_type = NursingHomeKey
    /\ upstream.status = "ok" /\ upstream.results # <<>>
    /\ upstream.results[1] = Record(NursingHomeKey, 1)
    /\ Len(events) = 1
    /\ Join(events[1].value) = "1 Main St, Boston, MA 02108"

\* record r carries the name and identifier fields of data source `key`
HasNameAndId(r, key) ==
    Schema(key)[1] \in DOMAIN r /\ Schema(key)[2] \in DOMAIN r

\* the run ended with a missing-field error and produced nothing
MissingField == err = "KeyError" /\ messages = <<>> /\ events = <<>>

\* C5: when a record a run normalizes (one of the first three of a search,
\* the first of a lookup) lacks a field the category's rule reads from it,
\* the run ends with a missing-field error and produces no option list,
\* message or event; when every such record carries the fields, the run
\* succeeds.
C5_MissingFieldError ==
    /\ Searched /\ upstream.status = "ok" /\ upstream.results # <<>>
       => LET rs == upstream.results
          IN  IF \A i \in 1..Min(Len(rs), 3) : HasNameAndId(rs[i], facility_type)
              THEN err = "none" /\ Len(messages) = 1
              ELSE MissingField
    /\ LookedUp /\ upstream.status = "ok" /\ upstream.results # <<>>
       => IF HasAddress(upstream.results[1], facility_type)
          THEN err = "none" /\ Len(events) = 1
          ELSE MissingField

\* the label _resolve_name is to give for a key
LabelOrEmpty(key) == IF key \in Sources THEN Label(key) ELSE ""

\* C6: _resolve_name gives, for the resource key of every category, the
\* name of that category (the three keys being pairwise distinct), and the
\* empty string for every other key, the registry's 'base' key and None
\* among them.
C6_ResolveName ==
    /\ \A i \in 1..Len(FACILITY_TYPES) :
           _resolve_name(FACILITY_TYPES, FACILITY_TYPES[i].value.resource)
               = FACILITY_TYPES[i].value.name
    /\ \A i, j \in 1..Len(FACILITY_TYPES) :
           i # j => FACILITY_TYPES[i].value.resource
                        # FACILITY_TYPES[j].value.resource
    /\ _resolve_name(FACILITY_TYPES, facility_type) # None
    /\ Join(_resolve_name(FACILITY_TYPES, facility_type))
           = LabelOrEmpty(facility_type)
    /\ Searched /\ err = "none" /\ upstream.results = <<>>
           => Join(messages[1].text) =
                  "Sorry, we could not find a " \o Label(facility_type)
                      \o " in " \o Join(Title(location)) \o "."

\* a search of the last category of the registry found nothing and named
\* the category in its message
C6_Witness ==
    /\ Searched /\ facility_type = HomeHealthKey /\ location = Boston
    /\ err = "none" /\ upstream.results = <<>>
    /\ Join(messages[1].text)
           = "Sorry, we could not find a home health agency in Boston."

\* the plural of the label of a data source
Plural(key) ==
    IF key = HospitalKey THEN "hospitals"
    ELSE IF key = NursingHomeKey THEN "nursing homes"
    ELSE "home health agencies"

\* C7: when a search presents k >= 1 options, its summary states k and the
\* plural label when k is not 1 ("hospitals", "nursing homes", "home health
\* agencies"), and uses the singular label unchanged when k = 1.
C7_Summary ==
    Searched /\ err = "none" /\ Len(messages) = 1
             /\ Len(messages[1].buttons) >= 1
    => LET k == Len(messages[1].buttons)
       IN  Join(messages[1].text) =
               IF k = 1
               THEN "Here is a " \o Label(facility_type) \o " near you:"
               ELSE "Here are " \o ToString(k) \o " " \o Plural(facility_type)
                        \o " near you:"

\* two home health agencies were presented
C7_Witness ==
    /\ Searched /\ facility_type = HomeHealthKey /\ err = "none"
    /\ Len(messages) = 1
    /\ Len(messages[1].buttons) = 2
    /\ Join(messages[1].text) = "Here are 2 home health agencies near you:"

\* C8: a search or a lookup issues at most one GET; when that GET fails in
\* transport or its body fails to decode, the run ends with that error,
\* having issued no second request and produced no message, option list or
\* slot event.
C8_OneGet ==
    op \in {"submit", "lookup"}
    => /\ Len(requests) <= 1
       /\ Len(requests) = 1 /\ upstream.status # "ok"
          => /\ err = upstream.status
             /\ messages = <<>>
             /\ events = <<>>

\* a lookup whose one GET failed in transport ended with that error
C8_Witness ==
    /\ LookedUp /\ upstream.status = "ConnectionError"
    /\ Len(requests) = 1
    /\ err = "ConnectionError"
    /\ events = <<>>

\* C9: for a facility_type that is none of the three data-source keys, a
\* search and a lookup fail before any GET is issued, so whatever a run
\* produces from the home-health branch comes from key 9wzi-peqs.
C9_UnknownKeyFails ==
    op \in {"submit", "lookup"}
    => /\ facility_type \notin {HospitalKey, NursingHomeKey, HomeHealthKey}
          => /\ err \in {"KeyError", "TypeError"}
             /\ requests = <<>>
             /\ messages = <<>>
             /\ events = <<>>
       /\ (requests # <<>> \/ messages # <<>> \/ events # <<>>)
              /\ facility_type \notin {HospitalKey, NursingHomeKey}
          => facility_type = HomeHealthKey

\* a lookup with the registry's 'base' key failed before any GET
C9_Witness ==
    /\ op = "lookup" /\ facility_type = BaseKey
    /\ err = "TypeError"
    /\ requests = <<>>

\* the slot the form is to ask for
ToRequest ==
    IF facility_type = None THEN <<"facility_type">>
    ELSE IF location = None THEN <<"location">>
    ELSE None

\* C10: a run of the form emits exactly one requested_slot event: for
\* facility_type whenever it is unfilled, for location only when
\* facility_type is filled and location is not, and None exactly when both
\* are filled; when each requested slot is filled before the next run, the
\* form has asked for nothing after at most two fills, and once it asks for
\* nothing it never asks again.
C10_RequestedSlot ==
    /\ [](op = "validate"
          => /\ err = "none"
             /\ Len(events) = 1
             /\ events[1].event = "slot"
             /\ events[1].name = "requested_slot"
             /\ events[1].value = ToRequest
             /\ requested_slot = events[1].value
             /\ requested_slot = <<"facility_type">> => facility_type = None
             /\ requested_slot = <<"location">> => location = None
             /\ requested_slot = None
                    <=> (facility_type # None /\ location # None)
             /\ fills = 2 => requested_slot = None)
    /\ [](fills <= 2)
    /\ [][op = "validate" /\ requested_slot = None
              => requested_slot' = None]_vars

\* both slots were unset, both were filled on request, and the form asks
\* for nothing
C10_Witness ==
    /\ op = "validate"
    /\ fills = 2
    /\ requested_slot = None
    /\ events = <<SlotSet("requested_slot", None)>>

===========================================================================
